---- MODULE Spec2Model ----
(***************************************************************************)
(* Model of the authentication core of go-backend-template:                *)
(*   internal/features/auth   (auth_service.go, auth_handler.go, tokens)   *)
(*   internal/features/user   (user service and repository)                *)
(*   internal/postgres        (transaction manager, context handle)        *)
(* The account store is a set of committed rows plus the pending writes of *)
(* the open transactions; every RegisterUser call is a process whose steps *)
(* are the calls it makes on its collaborators.                            *)
(***************************************************************************)
EXTENDS Integers, Sequences, FiniteSets, TLC

\* ---------------------------------------------------------------- bounds
\* RegisterUser calls in flight at once (one pooled connection each)
MaxCalls == 2
\* ids uuid.New() hands out
MaxIds == 3
\* days the clock runs
MaxTime == 2
MaxSalt == 1
\* tokens held by clients in the token specification, and the TTLs they ask for
MaxTokens == 1
MaxTTL == 2

Calls == 1..MaxCalls
Times == 0..MaxTime
Salts == 1..MaxSalt
Emails == {"a@x.io", "b@x.io"}
Passwords == {"Password123"}
TTLs == 1..MaxTTL
\* the passwords a sign-in request can carry
LoginPasswords == Passwords \cup {"Guess456"}
\* the identities the OAuth providers can report: goth.User.Provider and
\* goth.User.UserID, which the code takes as it comes, empty or not
Providers == {"google", "microsoftonline"}
ProviderIDs == {"", "g-1"}

\* ------------------------------------------------------ program constants
\* time.Hour*48 of SendAccountVerificationEmail, in days (one Tick is a day)
VerifyTTL == 2
\* cfg.JWT.AccessTokenExpiry, the Timeout of the sign-in middleware, in days
SessionTTL == 1
Secret == "cfg.JWT.Secret"
Domain == "cfg.Server.Domain"

\* error values (Go error variables and library errors), "nil" is no error
Nil == "nil"
ErrKeyDuplicate == "postgres.ErrKeyDuplicate"
ErrRecordNotFound == "postgres.ErrRecordNotFound"
ErrInvalidToken == "errors.ErrInvalidToken"
ErrBegin == "tx.Error"
ErrHash == "bcrypt error"
ErrStore == "store error"
ErrSend == "send error"
ErrTokenMalformed == "jwt.ErrTokenMalformed"
ErrTokenUnverifiable == "jwt.ErrTokenUnverifiable"
ErrTokenSignatureInvalid == "jwt.ErrTokenSignatureInvalid"
ErrTokenExpired == "jwt.ErrTokenExpired"
ErrEmailLinkedToOauth == "errors.ErrEmailLinkedToOauth"
ErrAccountNotActive == "errors.ErrAccountNotActive"
ErrIncorrectPassword == "errors.ErrIncorrectPassword"
ErrHashTooShort == "bcrypt.ErrHashTooShort"
ErrFailedAuthentication == "jwt.ErrFailedAuthentication"

\* the *gorm.DB handles: the pool, or the transaction of call c (handle c)
DefaultDB == 0
\* a context that carries no value under dbKey
NoValue == -1
\* uuid.Nil / the empty id string
NoId == 0

\* ------------------------------------------------------------- variables
VARIABLES
  users,     \* committed rows of the users table
  tx,        \* tx[c]: the transaction begun by call c: state and pending rows
  call,      \* call[c]: the position and locals of the RegisterUser call on worker c
  nextId,    \* the next value uuid.New() yields
  outbox,    \* the e-mails handed to the e-mail service
  now,       \* the clock, in days
  last,      \* the request that returned in the last step, with its result
  cookies    \* the access_token cookies the clients keep

vars == <<users, tx, call, nextId, outbox, now, last, cookies>>

\* ------------------------------------------------------- credential hash
NoHash == [salt |-> 0, pw |-> ""]

\* a hash that does not depend on the password
hashPassword_Constant(password, salt) == [salt |-> salt, pw |-> "Password123"]

hashPassword(password, salt) == [salt |-> salt, pw |-> password]

\* ------------------------------------------------------------- the token
NoToken == [form |-> "none", alg |-> "", key |-> "", hasSub |-> FALSE,
            sub |-> NoId, idClaim |-> NoId, iat |-> 0, exp |-> 0]

\* the "sub" claim is written only for a non-empty subject (omitempty)
NewJwtToken(id, secret, ttl, t) ==
  [form |-> "jwt", alg |-> "HS256", key |-> secret, hasSub |-> id # NoId,
   sub |-> id, idClaim |-> NoId, iat |-> t, exp |-> t + ttl]

IsHMAC(alg) == alg \in {"HS256", "HS384", "HS512"}

\* a parser that checks nothing
ParseErr_NoCheck(secret, token, t) == Nil

\* jwt.Parse with the key function of ExtractSubjectFromToken: the error it
\* returns, in the order the library checks (segments, key function,
\* signature, registered claims)
ParseErr(secret, token, t) ==
  IF token.form # "jwt" THEN ErrTokenMalformed
  ELSE IF ~IsHMAC(token.alg) THEN ErrTokenUnverifiable
  ELSE IF token.key # secret THEN ErrTokenSignatureInvalid
  ELSE IF ~(t < token.exp) THEN ErrTokenExpired
  ELSE Nil

ExtractSubjectFromToken(secret, token, t) ==
  LET err == ParseErr(secret, token, t) IN
  IF err # Nil THEN [sub |-> NoId, err |-> err]
  ELSE IF ~token.hasSub THEN [sub |-> NoId, err |-> ErrInvalidToken]
  ELSE [sub |-> token.sub, err |-> Nil]

\* tokens a client can present without knowing the secret
ForgedTokens ==
  { [NoToken EXCEPT !.form = "garbage"],
    [form |-> "jwt", alg |-> "HS256", key |-> "guess", hasSub |-> TRUE,
     sub |-> 1, idClaim |-> NoId, iat |-> 0, exp |-> MaxTime + VerifyTTL + 1],
    [form |-> "jwt", alg |-> "none", key |-> "", hasSub |-> TRUE,
     sub |-> 1, idClaim |-> NoId, iat |-> 0, exp |-> MaxTime + VerifyTTL + 1],
    [form |-> "jwt", alg |-> "RS256", key |-> "public key", hasSub |-> TRUE,
     sub |-> 1, idClaim |-> NoId, iat |-> 0, exp |-> MaxTime + VerifyTTL + 1] }

\* ------------------------------------------------------- context, handles
\* a FromContext that never looks the transaction up
FromContext_PoolOnly(ctxValue, defaultDB) == defaultDB

FromContext(ctxValue, defaultDB) ==
  IF ctxValue # NoValue THEN ctxValue ELSE defaultDB

\* ------------------------------------------------------------ the router
V1Group == "/api/v1"

Routes ==
  { [method |-> "POST", path |-> V1Group \o "/auth/sign-up", handler |-> "signUp"],
    [method |-> "GET", path |-> V1Group \o "/auth/verify-email", handler |-> "verifyUser"],
    [method |-> "POST", path |-> V1Group \o "/auth/resend-verification-email",
     handler |-> "reSendVerificationEmail"],
    [method |-> "PUT", path |-> V1Group \o "/auth/reset-password", handler |-> "resetPassword"] }

RouteHandler(method, path) ==
  IF \E r \in Routes : r.method = method /\ r.path = path
  THEN (CHOOSE r \in Routes : r.method = method /\ r.path = path).handler
  ELSE "NoRoute"

\* the path of the URL that SendAccountVerificationEmail formats
VerifyLinkPath == "/api/v1/auth/verify"


\* -------------------------------------------------------- the user store
NoUser == [id |-> NoId, email |-> "", password |-> NoHash, isActive |-> FALSE,
           provider |-> "", providerID |-> ""]

\* a CreateUser that marks every new account active
CreateUserEntity_AlwaysActive(email, password, provider, providerID) ==
  [id |-> NoId, email |-> email,
   password |-> IF providerID # "" THEN NoHash ELSE password,
   isActive |-> TRUE,
   provider |-> provider, providerID |-> providerID]

\* the entity userServiceImpl.CreateUser builds from a RegisterRequestDto
CreateUserEntity(email, password, provider, providerID) ==
  [id |-> NoId, email |-> email,
   password |-> IF providerID # "" THEN NoHash ELSE password,
   isActive |-> providerID # "",
   provider |-> provider, providerID |-> providerID]

\* User.BeforeCreate: a row without an id gets a fresh one
BeforeCreate(user, fresh) ==
  IF user.id = NoId THEN [user EXCEPT !.id = fresh] ELSE user

\* an Insert that meets no unique index on email
InsertResult_NoUniqueIndex(db, email) == "ok"

\* an index that lets an insert pass the uncommitted rows of others
HeldByOpenTx_Never(db, email) == FALSE

\* another open transaction holds an uncommitted row with the email
HeldByOpenTx(db, email) ==
  \E t \in Calls : /\ t # db
                   /\ tx[t].state = "open"
                   /\ \E w \in tx[t].writes : w.email = email

\* what the INSERT of userRepositoryImpl.Insert meets on handle db: the unique
\* index on email reports a committed row as a conflict (23505, mapped by
\* IsPgxError to ErrKeyDuplicate) and waits for an open transaction that
\* holds an uncommitted row with the same email
InsertResult(db, email) ==
  IF \E u \in users : u.email = email THEN "dup"
  ELSE IF HeldByOpenTx(db, email) THEN "blocked"
  ELSE "ok"

\* the committed row with an id (NoUser when there is none)
RowById(rows, id) ==
  IF \E u \in rows : u.id = id THEN CHOOSE u \in rows : u.id = id ELSE NoUser

\* an Update that saves a whole row built from the update map alone
Updated_ReplacesRow(rows, id, field, value) ==
  { IF u.id = id THEN [NoUser EXCEPT !.id = id, ![field] = value] ELSE u : u \in rows }

\* the rows an UPDATE ... WHERE id = ? on the pool handle changes
Updated(rows, id, field, value) ==
  { IF u.id = id THEN [u EXCEPT ![field] = value] ELSE u : u \in rows }

\* userRepositoryImpl.Update: the error it returns. Updates() reports no
\* error when no row matches, so the ErrRecordNotFound branch is never taken
UpdateErr(rows, id, fault) ==
  IF fault THEN ErrStore ELSE Nil

\* ------------------------------------------------- transaction manager
NoTx == [state |-> "none", writes |-> {}]

\* transactionManagerImpl.Commit applied to the handle found in the context
Commit(txs, ctxValue, ok) ==
  IF ctxValue = NoValue \/ txs[ctxValue].state # "open" THEN txs
  ELSE [txs EXCEPT ![ctxValue] =
          [state |-> IF ok THEN "committed" ELSE "commitfailed", writes |-> {}]]

Committed(txs, ctxValue, ok) ==
  IF ctxValue # NoValue /\ txs[ctxValue].state = "open" /\ ok
  THEN txs[ctxValue].writes ELSE {}

\* transactionManagerImpl.Rollback applied to the handle found in the context
Rollback(txs, ctxValue) ==
  IF ctxValue = NoValue \/ txs[ctxValue].state # "open" THEN txs
  ELSE [txs EXCEPT ![ctxValue] = [state |-> "rolledback", writes |-> {}]]

\* --------------------------------------------------------------- Init
\* the zero OAuthResponseDto
NoResult == [id |-> NoId, email |-> "", provider |-> "", providerID |-> ""]

NoResp == [via |-> "none", handler |-> "none", op |-> "none", token |-> NoToken,
           id |-> NoId, err |-> Nil, status |-> 0, before |-> NoUser,
           fault |-> FALSE, email |-> "", log |-> <<>>, faults |-> {},
           nsent |-> 0, newUser |-> NoUser, dupAtStart |-> FALSE,
           txState |-> "none", secret |-> "", password |-> "",
           path |-> "none", result |-> NoResult, checked |-> FALSE,
           provider |-> "", providerID |-> "", newPassword |-> "",
           authErr |-> Nil, cookie |-> NoToken, state |-> "none",
           stateCookie |-> "none"]

IdleCall == [pc |-> "idle", email |-> "", password |-> "", ctx |-> NoValue,
             err |-> Nil, hashed |-> NoHash, newUser |-> NoUser, nsent |-> 0,
             log |-> <<>>, dupAtStart |-> FALSE]

Init ==
  /\ users = {}
  /\ tx = [c \in Calls |-> NoTx]
  /\ call = [c \in Calls |-> IdleCall]
  /\ nextId = 1
  /\ outbox = {}
  /\ now = 0
  /\ last = NoResp
  /\ cookies = {}


\* ------------------------------------------------------- RegisterUser
\* the condition of the deferred function: recover() # nil || err # nil,
\* where err is the variable declared with ctx at Begin
DeferRollsBack(recovered, err) == recovered \/ err # Nil

\* the value RegisterUser hands to its caller: a recovered panic leaves the
\* unnamed result at its zero value
Returned(recovered, ret) == IF recovered THEN Nil ELSE ret

\* the status Handler.signUp answers with
SignUpStatus(err) ==
  IF err = Nil THEN 201
  ELSE IF err = ErrKeyDuplicate THEN 400
  ELSE 500

\* a transaction that ended gives its connection back; one that was neither
\* committed nor rolled back keeps it, with its uncommitted rows
Released(txs, c) ==
  IF txs[c].state = "open" THEN txs ELSE [txs EXCEPT ![c] = NoTx]

\* RegisterUser on worker c leaves its body: the deferred function runs on
\* the transactions txs with the function's variable err, and the caller
\* (Handler.signUp) gets the result. log and faults record what the call did.
RegExit(c, txs, err, ret, recovered, log, faults) ==
  LET rollsBack == DeferRollsBack(recovered, err)
      after == IF rollsBack THEN Rollback(txs, call[c].ctx) ELSE txs
      result == Returned(recovered, ret)
  IN
  /\ tx' = Released(after, c)
  /\ call' = [call EXCEPT ![c] = [IdleCall EXCEPT !.pc = "done"]]
  /\ last' = [NoResp EXCEPT
        !.via = "direct", !.handler = "signUp", !.op = "RegisterUser",
        !.err = result, !.status = SignUpStatus(result),
        !.email = call[c].email, !.faults = faults,
        !.nsent = call[c].nsent, !.newUser = call[c].newUser,
        !.dupAtStart = call[c].dupAtStart, !.txState = after[c].state,
        !.log = IF rollsBack
                THEN Append(log, [ev |-> "Rollback", db |-> call[c].ctx])
                ELSE log]

\* ctx, err := as.transactionManager.Begin(c); the workers are taken in order
RegBegin(c, email, password, ok) ==
  /\ call[c].pc = "idle"
  /\ IF c = 1 THEN TRUE ELSE call[c - 1].pc # "idle"
  /\ IF ok
     THEN /\ tx' = [tx EXCEPT ![c] = [state |-> "open", writes |-> {}]]
          /\ call' = [call EXCEPT ![c] =
                [@ EXCEPT !.pc = "create", !.email = email, !.password = password,
                          !.ctx = c, !.log = Append(@, [ev |-> "Begin", db |-> c]),
                          !.dupAtStart = \E u \in users : u.email = email]]
          /\ last' = NoResp
     ELSE \* return err, before the deferred function is registered
          /\ tx' = tx
          /\ call' = [call EXCEPT ![c] = [IdleCall EXCEPT !.pc = "done"]]
          /\ last' = [NoResp EXCEPT
                !.via = "direct", !.handler = "signUp", !.op = "RegisterUser",
                !.err = ErrBegin, !.status = SignUpStatus(ErrBegin),
                !.email = email, !.faults = {"begin"},
                !.dupAtStart = \E u \in users : u.email = email]
  /\ UNCHANGED <<users, nextId, outbox, now, cookies>>

\* hashedPassword, err := hashPassword(requestBody.Password), then
\* newUser, err := as.userService.CreateUser(ctx, userPayload), down to
\* userRepositoryImpl.Insert on the handle FromContext finds
RegCreate(c, salt, outcome) ==
  /\ call[c].pc = "create"
  /\ LET db == FromContext(call[c].ctx, DefaultDB)
         hashed == hashPassword(call[c].password, salt)
         entity == BeforeCreate(CreateUserEntity(call[c].email, hashed, "", ""),
                                nextId)
         res == InsertResult(db, call[c].email)
     IN
     CASE outcome = "hashfault" ->
            /\ RegExit(c, tx, ErrHash, ErrHash, FALSE, call[c].log, {"hash"})
            /\ UNCHANGED <<users, nextId>>
       [] outcome = "store" /\ res = "ok" /\ nextId <= MaxIds ->
            /\ IF db = DefaultDB
               THEN users' = users \cup {entity} /\ tx' = tx
               ELSE users' = users /\ tx' = [tx EXCEPT ![db].writes = @ \cup {entity}]
            /\ nextId' = nextId + 1
            /\ call' = [call EXCEPT ![c] =
                  [@ EXCEPT !.pc = "send", !.hashed = hashed, !.newUser = entity,
                            !.log = Append(@, [ev |-> "Insert", db |-> db])]]
            /\ last' = NoResp
       [] outcome = "store" /\ res = "dup" ->
            /\ RegExit(c, tx, ErrKeyDuplicate, ErrKeyDuplicate, FALSE,
                       Append(call[c].log, [ev |-> "InsertDup", db |-> db]), {})
            /\ UNCHANGED <<users, nextId>>
       [] outcome = "fault" ->
            /\ RegExit(c, tx, ErrStore, ErrStore, FALSE, call[c].log, {"insert"})
            /\ UNCHANGED <<users, nextId>>
       [] outcome = "panic" ->
            /\ RegExit(c, tx, Nil, Nil, TRUE, call[c].log, {"insertpanic"})
            /\ UNCHANGED <<users, nextId>>
       [] OTHER -> FALSE
  /\ UNCHANGED <<outbox, now, cookies>>

\* the e-mail SendAccountVerificationEmail builds for an account
VerificationEmail(user, t) ==
  [to |-> user.email, domain |-> Domain, path |-> VerifyLinkPath,
   token |-> NewJwtToken(user.id, Secret, VerifyTTL, t)]

\* if err := as.SendAccountVerificationEmail(ctx, newUser); err != nil
\* { return err }: this err is a new variable of the if statement, the
\* function's err keeps the nil of CreateUser
RegSend(c, outcome) ==
  /\ call[c].pc = "send"
  /\ CASE outcome = "ok" ->
            /\ outbox' = outbox \cup {VerificationEmail(call[c].newUser, now)}
            /\ call' = [call EXCEPT ![c] =
                  [@ EXCEPT !.pc = "commit", !.nsent = @ + 1,
                            !.log = Append(@, [ev |-> "SendOk", db |-> NoValue])]]
            /\ last' = NoResp
            /\ tx' = tx
       [] outcome = "fault" ->
            /\ outbox' = outbox
            /\ RegExit(c, tx, call[c].err, ErrSend, FALSE, call[c].log, {"send"})
       [] outcome = "panic" ->
            /\ outbox' = outbox
            /\ RegExit(c, tx, call[c].err, Nil, TRUE, call[c].log, {"sendpanic"})
       [] OTHER -> FALSE
  /\ UNCHANGED <<users, nextId, now, cookies>>

\* as.transactionManager.Commit(ctx), its error dropped; return nil
RegCommit(c, ok) ==
  /\ call[c].pc = "commit"
  /\ users' = users \cup Committed(tx, call[c].ctx, ok)
  /\ RegExit(c, Commit(tx, call[c].ctx, ok), call[c].err, Nil, FALSE,
             Append(call[c].log, [ev |-> "Commit", db |-> call[c].ctx]),
             IF ok THEN {} ELSE {"commit"})
  /\ UNCHANGED <<nextId, outbox, now, cookies>>

\* ----------------------------------------------------- ActivateAccount
\* an ActivateAccount that answers without updating the store
ActivateAccount_NoUpdate(token, fault) ==
  LET r == ExtractSubjectFromToken(Secret, token, now) IN
  [id |-> r.sub, err |-> r.err, rows |-> users]

\* the (id, err) ActivateAccount returns for a token, and the rows it leaves
ActivateAccount(token, fault) ==
  LET r == ExtractSubjectFromToken(Secret, token, now) IN
  IF r.err # Nil THEN [id |-> NoId, err |-> r.err, rows |-> users]
  ELSE LET err == UpdateErr(users, r.sub, fault) IN
       IF err # Nil THEN [id |-> NoId, err |-> err, rows |-> users]
       ELSE [id |-> r.sub, err |-> Nil,
             rows |-> Updated(users, r.sub, "isActive", TRUE)]

\* the status Handler.verifyUser answers with
VerifyStatus(id, err) ==
  IF err # Nil THEN 400
  ELSE IF id = NoId THEN 500
  ELSE 200

\* Handler.verifyUser serving a request that carries the query token
ServeVerify(via, token, fault) ==
  LET a == ActivateAccount(token, fault) IN
  /\ users' = a.rows
  /\ last' = [NoResp EXCEPT !.via = via, !.handler = "verifyUser",
                            !.op = "ActivateAccount", !.token = token,
                            !.id = a.id, !.err = a.err,
                            !.status = VerifyStatus(a.id, a.err),
                            !.before = RowById(users, token.sub),
                            !.fault = fault]

\* the tokens a client can put in a request: the mailed ones, the session
\* tokens of its cookies, and forgeries
KnownTokens == ForgedTokens \cup { m.token : m \in outbox } \cup cookies

\* GET /api/v1/auth/verify-email?token=...
VerifyUser(token, fault) ==
  /\ token \in KnownTokens
  /\ fault => ExtractSubjectFromToken(Secret, token, now).err = Nil
  /\ ServeVerify("direct", token, fault)
  /\ UNCHANGED <<tx, call, nextId, outbox, now, cookies>>

\* the recipient follows the link of a verification e-mail: the router
\* dispatches GET on the path of the link
FollowLink(m, fault) ==
  /\ m \in outbox
  /\ fault => ExtractSubjectFromToken(Secret, m.token, now).err = Nil
  /\ IF RouteHandler("GET", m.path) = "verifyUser"
     THEN ServeVerify("link", m.token, fault)
     ELSE /\ ~fault
          /\ users' = users
          /\ last' = [NoResp EXCEPT !.via = "link", !.handler = RouteHandler("GET", m.path),
                                    !.token = m.token, !.status = 404]
  /\ UNCHANGED <<tx, call, nextId, outbox, now, cookies>>

\* a day passes
Tick ==
  /\ now < MaxTime
  /\ now' = now + 1
  /\ last' = NoResp
  /\ UNCHANGED <<users, tx, call, nextId, outbox, cookies>>

\* ------------------------------------------------------------ the system
Outcomes == {"hashfault", "store", "ok", "fault", "panic"}

Next ==
  \/ \E c \in Calls, e \in Emails, p \in Passwords, ok \in BOOLEAN : RegBegin(c, e, p, ok)
  \/ \E c \in Calls, s \in Salts, o \in Outcomes : RegCreate(c, s, o)
  \/ \E c \in Calls, o \in Outcomes : RegSend(c, o)
  \/ \E c \in Calls, ok \in BOOLEAN : RegCommit(c, ok)
  \/ \E t \in KnownTokens, f \in BOOLEAN : VerifyUser(t, f)
  \/ \E m \in outbox, f \in BOOLEAN : FollowLink(m, f)
  \/ Tick

Spec == Init /\ [][Next]_vars

\* ----------------------------------------------------------- LoginUser
\* a comparison every password passes
checkPassword_AnyPassword(hashedPassword, password) == Nil

\* bcrypt.CompareHashAndPassword as checkPassword maps it: a mismatch is
\* ErrIncorrectPassword, any other failure (an empty hash is too short to
\* be a bcrypt hash) comes back as the library's error
checkPassword(hashedPassword, password) ==
  IF hashedPassword = NoHash THEN ErrHashTooShort
  ELSE IF hashedPassword.pw = password THEN Nil
  ELSE ErrIncorrectPassword

\* the committed row with an email (NoUser when there is none)
RowByEmail(rows, email) ==
  IF \E u \in rows : u.email = email THEN CHOOSE u \in rows : u.email = email
  ELSE NoUser

\* a fetch that answers an absent row with an empty DTO and no error
GetUserByEmail_NoError(rows, email, fault) ==
  IF fault THEN [user |-> NoUser, err |-> ErrStore]
  ELSE [user |-> [RowByEmail(rows, email) EXCEPT !.provider = ""], err |-> Nil]

\* userServiceImpl.GetUserByEmail: the UserResponseDto it fills carries the
\* id, email, password hash, active flag and provider id, not the provider
GetUserByEmail(rows, email, fault) ==
  IF fault THEN [user |-> NoUser, err |-> ErrStore]
  ELSE IF RowByEmail(rows, email) = NoUser
       THEN [user |-> NoUser, err |-> ErrRecordNotFound]
       ELSE [user |-> [RowByEmail(rows, email) EXCEPT !.provider = ""], err |-> Nil]

\* a LoginUser that verifies the password before it looks at the active flag
LoginUser_PasswordFirst(rows, email, password, fault) ==
  LET r == GetUserByEmail(rows, email, fault)
      resp == r.user
  IN
  IF r.err # Nil THEN [id |-> NoId, err |-> r.err, checked |-> FALSE]
  ELSE IF resp.providerID # ""
       THEN [id |-> NoId, err |-> ErrEmailLinkedToOauth, checked |-> FALSE]
  ELSE IF checkPassword(resp.password, password) # Nil
       THEN [id |-> NoId, err |-> checkPassword(resp.password, password),
             checked |-> TRUE]
  ELSE IF ~resp.isActive
       THEN [id |-> NoId, err |-> ErrAccountNotActive, checked |-> TRUE]
  ELSE [id |-> resp.id, err |-> Nil, checked |-> TRUE]

\* the (id, err) LoginUser returns; checked tells whether checkPassword ran
LoginUser(rows, email, password, fault) ==
  LET r == GetUserByEmail(rows, email, fault)
      resp == r.user
  IN
  IF r.err # Nil THEN [id |-> NoId, err |-> r.err, checked |-> FALSE]
  ELSE IF resp.providerID # ""
       THEN [id |-> NoId, err |-> ErrEmailLinkedToOauth, checked |-> FALSE]
  ELSE IF ~resp.isActive
       THEN [id |-> NoId, err |-> ErrAccountNotActive, checked |-> FALSE]
  ELSE IF checkPassword(resp.password, password) # Nil
       THEN [id |-> NoId, err |-> checkPassword(resp.password, password),
             checked |-> TRUE]
  ELSE [id |-> resp.id, err |-> Nil, checked |-> TRUE]

\* an Authenticator that hands the error of LoginUser on
Authenticator_PassesError(err) == err

\* the Authenticator of the sign-in middleware: what it makes of the error
\* of LoginUser
Authenticator(err) == IF err # Nil THEN ErrFailedAuthentication ELSE Nil

\* the token the middleware signs (HS256, its Key is cfg.JWT.Secret): the
\* claims of PayloadFunc, which are the "id" of a *UserResponseDto and
\* nothing for any other data, with the expiry; there is no "sub"
SessionToken(id, t) ==
  [form |-> "jwt", alg |-> "HS256", key |-> Secret, hasSub |-> FALSE,
   sub |-> NoId, idClaim |-> id, iat |-> t, exp |-> t + SessionTTL]

\* POST /api/v1/auth/sign-in: LoginHandler calls the Authenticator, which
\* calls LoginUser, and answers 401 with the Authenticator's error or 200
\* with the access_token cookie
Login(email, password, fault) ==
  /\ LET r == LoginUser(users, email, password, fault)
         authErr == Authenticator(r.err)
     IN
     last' = [NoResp EXCEPT !.via = "direct", !.handler = "LoginHandler",
                            !.op = "LoginUser",
                            !.email = email, !.password = password,
                            !.id = r.id, !.err = r.err, !.fault = fault,
                            !.checked = r.checked,
                            !.before = RowByEmail(users, email),
                            !.authErr = authErr,
                            !.status = IF authErr = Nil THEN 200 ELSE 401,
                            !.cookie = IF authErr = Nil
                                       THEN SessionToken(r.id, now) ELSE NoToken]
  /\ UNCHANGED <<users, tx, call, nextId, outbox, now, cookies>>

\* ----------------------------------------------------- HandleOAuthUser
\* a CreateUser that answers without the id of the new row
CreateUserResponse_NoId(user) == [NoUser EXCEPT !.email = user.email]

\* the UserResponseDto userServiceImpl.CreateUser returns: id and email (and
\* the names), every other field at its zero value
CreateUserResponse(user) == [NoUser EXCEPT !.id = user.id, !.email = user.email]

\* the OAuthResponseDto HandleOAuthUser builds from a UserResponseDto
OAuthResponse(resp) ==
  [id |-> resp.id, email |-> resp.email, provider |-> resp.provider,
   providerID |-> resp.providerID]

OAuthFaults == {"none", "create", "fetch"}

\* a payload that leaves the provider fields of the identity out
OAuthPayload_NoProvider(email, provider, providerID) ==
  [email |-> email, password |-> NoHash, provider |-> "", providerID |-> ""]

\* the RegisterRequestDto HandleOAuthUser fills from the goth.User: the
\* email, the provider and the provider's user id, no password
OAuthPayload(email, provider, providerID) ==
  [email |-> email, password |-> NoHash, provider |-> provider,
   providerID |-> providerID]

\* a fallback taken on every creation error
FallsBack_Always(err) == TRUE

\* errors.Is(err, postgres.ErrKeyDuplicate): the creation error that sends
\* HandleOAuthUser to the stored account
FallsBack(err) == err = ErrKeyDuplicate

\* a fallback that writes the provider of the identity on the stored account
HandleOAuthUser_LinksProvider(email, provider, providerID, fault) ==
  LET fetched == GetUserByEmail(users, email, FALSE) IN
  IF fetched.err # Nil
  THEN [err |-> Nil, path |-> "create", created |-> TRUE,
        resp |-> CreateUserResponse(BeforeCreate(
                   CreateUserEntity(email, NoHash, provider, providerID), nextId)),
        rows |-> users \cup {BeforeCreate(
                   CreateUserEntity(email, NoHash, provider, providerID), nextId)}]
  ELSE [err |-> Nil, path |-> "fallback", created |-> FALSE, resp |-> fetched.user,
        rows |-> { IF u.email = email
                   THEN [u EXCEPT !.provider = provider, !.providerID = providerID,
                                  !.isActive = TRUE]
                   ELSE u : u \in users }]

\* HandleOAuthUser for the identity (email, provider, providerID): CreateUser
\* on the pool handle, and GetUserByEmail when the insert meets the unique
\* index. It gives the error, the UserResponseDto the result is built from,
\* the path taken and the rows it leaves.
HandleOAuthUser(email, provider, providerID, fault) ==
  LET payload == OAuthPayload(email, provider, providerID)
      entity == BeforeCreate(CreateUserEntity(payload.email, payload.password,
                                              payload.provider, payload.providerID),
                             nextId)
      createErr == IF fault = "create" THEN ErrStore
                   ELSE IF InsertResult(DefaultDB, email) = "dup" THEN ErrKeyDuplicate
                   ELSE Nil
      fetched == GetUserByEmail(users, email, fault = "fetch")
  IN
  IF createErr = Nil
  THEN [err |-> Nil, path |-> "create", created |-> TRUE,
        resp |-> CreateUserResponse(entity), rows |-> users \cup {entity}]
  ELSE IF FallsBack(createErr)
  THEN [err |-> fetched.err, path |-> "fallback", created |-> FALSE,
        resp |-> fetched.user, rows |-> users]
  ELSE [err |-> createErr, path |-> "create", created |-> FALSE,
        resp |-> NoUser, rows |-> users]

\* ------------------------------------------------- the OAuth callback
\* c.Cookie("oauth_state") failed: the request has no such cookie
NoCookie == "none"
\* the oauth_state cookies and the state query parameters of a callback
StateCookies == {NoCookie, "", "s1"}
StateParams == {"", "s1", "s2"}

\* a callback that takes every request
StateValid_Always(cookie, state) == TRUE

\* the request passes the state check of OAuthCallbackMiddleware
StateValid(cookie, state) == cookie # NoCookie /\ state # "" /\ state = cookie

\* GET /api/v1/oauth/:provider/callback refused: 400 without the cookie,
\* 401 for an empty or a different state; handleUser is not called
OAuthCallbackRefused(cookie, state) ==
  /\ ~StateValid(cookie, state)
  /\ last' = [NoResp EXCEPT !.via = "direct", !.handler = "OAuthCallback",
                            !.stateCookie = cookie, !.state = state,
                            !.status = IF cookie = NoCookie THEN 400 ELSE 401]
  /\ UNCHANGED <<users, tx, call, nextId, outbox, now, cookies>>

\* GET /api/v1/oauth/:provider/callback past the state check: handleUser is
\* HandleOAuthUser, then TokenGenerator(result.ID) signs the session token
\* (PayloadFunc gets a string, so the token has no "id") for the
\* access_token cookie. An insert that waits for an open transaction has
\* not returned; a fault is one of a step that is reached.
OAuthCallback(cookie, state, email, provider, providerID, fault) ==
  LET h == HandleOAuthUser(email, provider, providerID, fault) IN
  /\ StateValid(cookie, state)
  /\ InsertResult(DefaultDB, email) # "blocked"
  /\ h.created => nextId <= MaxIds
  /\ fault = "fetch" => h.err = ErrStore
  /\ users' = h.rows
  /\ nextId' = IF h.created THEN nextId + 1 ELSE nextId
  /\ last' = [NoResp EXCEPT
        !.via = "direct", !.handler = "OAuthCallback", !.op = "HandleOAuthUser",
        !.stateCookie = cookie, !.state = state,
        !.email = email, !.provider = provider, !.providerID = providerID,
        !.path = h.path, !.err = h.err, !.id = h.resp.id,
        !.result = OAuthResponse(h.resp),
        !.before = RowByEmail(users, email),
        !.faults = IF fault = "none" THEN {} ELSE {fault},
        !.status = IF h.err = Nil THEN 200 ELSE 500,
        !.cookie = IF h.err = Nil THEN SessionToken(NoId, now) ELSE NoToken]
  /\ UNCHANGED <<tx, call, outbox, now, cookies>>

\* ------------------------------------------------------ ResetPassword
ResetFaults == {"none", "fetch", "hash", "update"}

\* a ResetPassword that does not verify the current password
ResetPassword_NoCheck(rows, email, currentPassword, newPassword, salt, fault) ==
  LET r == GetUserByEmail(rows, email, fault = "fetch") IN
  IF r.err # Nil THEN [err |-> r.err, rows |-> rows]
  ELSE [err |-> Nil,
        rows |-> Updated(rows, r.user.id, "password", hashPassword(newPassword, salt))]

\* the error ResetPassword returns and the rows it leaves: every failure of
\* checkPassword is answered ErrIncorrectPassword
ResetPassword(rows, email, currentPassword, newPassword, salt, fault) ==
  LET r == GetUserByEmail(rows, email, fault = "fetch")
      resp == r.user
  IN
  IF r.err # Nil THEN [err |-> r.err, rows |-> rows]
  ELSE IF checkPassword(resp.password, currentPassword) # Nil
       THEN [err |-> ErrIncorrectPassword, rows |-> rows]
  ELSE IF fault = "hash" THEN [err |-> ErrHash, rows |-> rows]
  ELSE IF UpdateErr(rows, resp.id, fault = "update") # Nil
       THEN [err |-> UpdateErr(rows, resp.id, fault = "update"), rows |-> rows]
  ELSE [err |-> Nil,
        rows |-> Updated(rows, resp.id, "password", hashPassword(newPassword, salt))]

\* the status Handler.resetPassword answers with
ResetStatus(err) ==
  IF err = Nil THEN 200
  ELSE IF err = ErrIncorrectPassword THEN 401
  ELSE 500

\* PUT /api/v1/auth/reset-password; a fault is one of a step that is reached
Reset(email, currentPassword, newPassword, salt, fault) ==
  LET r == ResetPassword(users, email, currentPassword, newPassword, salt, fault)
      clean == ResetPassword(users, email, currentPassword, newPassword, salt, "none")
  IN
  /\ fault # "none" => r.err # clean.err
  /\ users' = r.rows
  /\ last' = [NoResp EXCEPT !.via = "direct", !.handler = "resetPassword",
                            !.op = "ResetPassword", !.email = email,
                            !.password = currentPassword,
                            !.newPassword = newPassword, !.err = r.err,
                            !.status = ResetStatus(r.err),
                            !.fault = fault # "none",
                            !.before = RowByEmail(users, email)]
  /\ UNCHANGED <<tx, call, nextId, outbox, now, cookies>>

\* ------------------------------------------ reSendVerificationEmail
\* userServiceImpl.GetUserByID: the UserResponseDto carries the id, email
\* and active flag
GetUserByID(rows, id) ==
  IF RowById(rows, id) = NoUser THEN [user |-> NoUser, err |-> ErrRecordNotFound]
  ELSE [user |-> [NoUser EXCEPT !.id = id, !.email = RowById(rows, id).email,
                                !.isActive = RowById(rows, id).isActive],
        err |-> Nil]

\* GET /api/v1/auth/resend-verification-email?id=...
ReSendVerificationEmail(id, sent) ==
  LET r == GetUserByID(users, id)
      answer(err, status) ==
        [NoResp EXCEPT !.via = "direct", !.handler = "reSendVerificationEmail",
                       !.op = "SendAccountVerificationEmail", !.id = id,
                       !.err = err, !.status = status,
                       !.before = RowById(users, id)]
  IN
  /\ IF r.err # Nil
     THEN sent /\ outbox' = outbox /\ last' = answer(r.err, 400)
     ELSE IF r.user.isActive
     THEN sent /\ outbox' = outbox /\ last' = answer(Nil, 400)
     ELSE IF ~sent
     THEN outbox' = outbox /\ last' = answer(ErrSend, 500)
     ELSE /\ outbox' = outbox \cup {VerificationEmail(r.user, now)}
          /\ last' = [answer(Nil, 200) EXCEPT !.nsent = 1]
  /\ UNCHANGED <<users, tx, call, nextId, now, cookies>>

\* ------------------------------------------- the account operations
\* every operation of the auth service on one store, the RegisterUser calls
\* one after the other and meeting no fault (their faults are in Spec), the
\* OAuth callbacks past the state check (the refused ones are in OAuthSpec)
SeqRegBegin(c, email, password, ok) ==
  /\ \A d \in Calls : call[d].pc \in {"idle", "done"}
  /\ RegBegin(c, email, password, ok)

AuthNext ==
  \/ \E c \in Calls, e \in Emails, p \in Passwords : SeqRegBegin(c, e, p, TRUE)
  \/ \E c \in Calls, s \in Salts : RegCreate(c, s, "store")
  \/ \E c \in Calls : RegSend(c, "ok")
  \/ \E c \in Calls : RegCommit(c, TRUE)
  \/ \E t \in KnownTokens, f \in BOOLEAN : VerifyUser(t, f)
  \/ \E e \in Emails, p \in LoginPasswords, f \in BOOLEAN : Login(e, p, f)
  \/ \E e \in Emails, pid \in ProviderIDs, f \in OAuthFaults :
        OAuthCallback("s1", "s1", e, "google", pid, f)
  \/ \E e \in Emails, p \in LoginPasswords, n \in LoginPasswords, sl \in Salts,
        f \in ResetFaults : Reset(e, p, n, sl, f)
  \/ \E id \in 1..MaxIds, sent \in BOOLEAN : ReSendVerificationEmail(id, sent)

AuthSpec == Init /\ [][AuthNext]_vars

\* ------------------------------------------------ the OAuth sign-in
\* sign-up, activation and the OAuth callback with every state cookie, state
\* parameter and identity
OAuthNext ==
  \/ \E c \in Calls, e \in Emails, p \in Passwords : SeqRegBegin(c, e, p, TRUE)
  \/ \E c \in Calls, s \in Salts : RegCreate(c, s, "store")
  \/ \E c \in Calls : RegSend(c, "ok")
  \/ \E c \in Calls : RegCommit(c, TRUE)
  \/ \E m \in outbox : VerifyUser(m.token, FALSE)
  \/ \E ck \in StateCookies, st \in StateParams : OAuthCallbackRefused(ck, st)
  \/ \E ck \in StateCookies, st \in StateParams, e \in Emails, pr \in Providers,
        pid \in ProviderIDs, f \in OAuthFaults : OAuthCallback(ck, st, e, pr, pid, f)

OAuthSpec == Init /\ [][OAuthNext]_vars

\* ------------------------------------------------- the session tokens
\* the client keeps the access_token cookie of the response it just got
KeepCookie ==
  /\ last.cookie # NoToken
  /\ cookies' = cookies \cup {last.cookie}
  /\ last' = NoResp
  /\ UNCHANGED <<users, tx, call, nextId, outbox, now>>

\* sign-up, activation and sign-in while the clock runs: the clients present
\* to the verify handler every token they hold
SessionNext ==
  \/ \E c \in Calls, e \in Emails, p \in Passwords : SeqRegBegin(c, e, p, TRUE)
  \/ \E c \in Calls, s \in Salts : RegCreate(c, s, "store")
  \/ \E c \in Calls : RegSend(c, "ok")
  \/ \E c \in Calls : RegCommit(c, TRUE)
  \/ \E t \in KnownTokens, f \in BOOLEAN : VerifyUser(t, f)
  \/ \E e \in Emails, p \in LoginPasswords, f \in BOOLEAN : Login(e, p, f)
  \/ KeepCookie
  \/ Tick

SessionSpec == Init /\ [][SessionNext]_vars

\* ------------------------------------------------- the token functions
\* NewJwtToken and ExtractSubjectFromToken on their own: clients hold tokens
\* (kept in the outbox), issued by NewJwtToken or signed by themselves with
\* an algorithm and a key of their choice, and present them for verification
Secrets == {Secret, "another secret"}
Algs == {"HS256", "HS384", "HS512", "RS256", "none"}
TokIds == NoId..MaxIds

Held(token) == [to |-> "", domain |-> Domain, path |-> "", token |-> token]

TokIssue(id, secret, ttl) ==
  /\ Cardinality(outbox) < MaxTokens
  /\ outbox' = outbox \cup {Held(NewJwtToken(id, secret, ttl, now))}
  /\ last' = [NoResp EXCEPT !.op = "NewJwtToken", !.secret = secret,
                            !.token = NewJwtToken(id, secret, ttl, now)]
  /\ UNCHANGED <<users, tx, call, nextId, now, cookies>>

\* a token with the claims NewJwtToken writes, signed with alg under key
TokSign(alg, id, key, ttl) ==
  /\ Cardinality(outbox) < MaxTokens
  /\ outbox' = outbox \cup {Held([NewJwtToken(id, key, ttl, now) EXCEPT !.alg = alg])}
  /\ last' = NoResp
  /\ UNCHANGED <<users, tx, call, nextId, now, cookies>>

TokVerify(secret, m) ==
  /\ m \in outbox
  /\ LET r == ExtractSubjectFromToken(secret, m.token, now) IN
     last' = [NoResp EXCEPT !.op = "ExtractSubjectFromToken", !.secret = secret,
                            !.token = m.token, !.id = r.sub, !.err = r.err]
  /\ UNCHANGED <<users, tx, call, nextId, outbox, now, cookies>>

TokNext ==
  \/ \E id \in TokIds, s \in Secrets, ttl \in TTLs : TokIssue(id, s, ttl)
  \/ \E a \in Algs, id \in TokIds, k \in Secrets, ttl \in TTLs : TokSign(a, id, k, ttl)
  \/ \E s \in Secrets, m \in outbox : TokVerify(s, m)
  \/ Tick

TokSpec == Init /\ [][TokNext]_vars


\* =================================================================
\* Properties
\* =================================================================
Events(log) == { log[i].ev : i \in DOMAIN log }

Registered == last.op = "RegisterUser"

Began == "Begin" \in Events(last.log)

\* C1: when a step of RegisterUser fails after Begin (hashing, the insert,
\* the verification e-mail, a panic), Rollback is called on the transaction
\* before RegisterUser returns, and no row of the call stays in the store or
\* in an open transaction.
C1_RollbackOnAnyFailure ==
  ( /\ Registered
    /\ Began
    /\ \/ last.faults \cap {"hash", "insert", "send", "insertpanic", "sendpanic"} # {}
       \/ "InsertDup" \in Events(last.log) )
  => /\ "Rollback" \in Events(last.log)
     /\ last.txState = "rolledback"
     /\ \A u \in users : u.id # last.newUser.id
     /\ \A c \in Calls : \A w \in tx[c].writes : w.email # last.email

\* C2: RegisterUser returns nil only when the insert was committed and the
\* verification e-mail was sent; when the notifier fails or panics, or Commit
\* fails, it returns an error.
C2_AllOrNothing ==
  Registered =>
    /\ last.err = Nil =>
         /\ last.txState = "committed"
         /\ last.nsent = 1
         /\ \E u \in users : u.id = last.newUser.id /\ u.email = last.email
    /\ last.faults \cap {"send", "sendpanic", "commit"} # {} => last.err # Nil

\* C3: in every RegisterUser call Begin precedes the insert, the insert runs
\* on the transaction Begin returned, Commit comes only after the notifier
\* returned success, and no transaction gets both Commit and Rollback.
WellOrdered(log) ==
  /\ \A i \in DOMAIN log :
        log[i].ev \in {"Insert", "InsertDup"} =>
          \E j \in 1..(i - 1) : log[j].ev = "Begin" /\ log[j].db = log[i].db
  /\ \A i \in DOMAIN log :
        log[i].ev = "Commit" =>
          /\ \E j \in 1..(i - 1) : log[j].ev = "SendOk"
          /\ \E j \in 1..(i - 1) : log[j].ev = "Begin" /\ log[j].db = log[i].db
  /\ \A i, j \in DOMAIN log :
        ~(log[i].ev = "Commit" /\ log[j].ev = "Rollback" /\ log[i].db = log[j].db)

C3_TransactionOrder ==
  /\ \A c \in Calls : WellOrdered(call[c].log)
  /\ WellOrdered(last.log)

C3_Witness ==
  /\ Registered
  /\ Len(last.log) = 4
  /\ last.log[2].ev = "Insert"
  /\ last.log[4].ev = "Commit"


\* C4: a sign-up with an unused email for which hashing, the store and the
\* notifier all succeed returns nil; the stored account is inactive and local
\* (no provider, no provider id, a password hash) and exactly one e-mail was
\* sent, to that email.
SignUpSucceeds ==
  /\ Registered
  /\ ~last.dupAtStart
  /\ last.faults = {}
  /\ "InsertDup" \notin Events(last.log)

C4_FreshSignUp ==
  SignUpSucceeds =>
    /\ last.err = Nil
    /\ last.status = 201
    /\ \E u \in users :
         /\ u.id = last.newUser.id
         /\ u.email = last.email
         /\ ~u.isActive
         /\ u.provider = "" /\ u.providerID = ""
         /\ u.password # NoHash
    /\ Cardinality({ u \in users : u.email = last.email }) = 1
    /\ last.nsent = 1
    /\ Cardinality({ m \in outbox : m.token.sub = last.newUser.id }) = 1
    /\ \A m \in outbox : m.token.sub = last.newUser.id => m.to = last.email

C4_Witness ==
  /\ SignUpSucceeds
  /\ last.err = Nil
  /\ \E u \in users : u.email = last.email /\ ~u.isActive

\* C5: registering with an email that already has a stored account returns
\* the duplicate-key error, sends no e-mail for that attempt, and no step of
\* the attempt changes a stored account.
C5_DuplicateSignUp ==
  [][ /\ ( last'.op = "RegisterUser" /\ last'.dupAtStart /\ last'.faults = {} )
         => /\ last'.err = ErrKeyDuplicate
            /\ last'.status = 400
            /\ last'.nsent = 0
      /\ \A c \in Calls :
           ( call[c].dupAtStart /\ call'[c] # call[c] )
           => users' = users /\ outbox' = outbox ]_vars

C5_Witness ==
  /\ Registered
  /\ last.dupAtStart
  /\ last.err = ErrKeyDuplicate
  /\ \E u \in users : u.email = last.email

\* C6: the link of the verification e-mail targets the route the auth router
\* registers for account verification: following it invokes verifyUser, which
\* calls ActivateAccount with the token of the link.
C6_LinkReachesVerify ==
  /\ \A m \in outbox : RouteHandler("GET", m.path) = "verifyUser"
  /\ last.via = "link" => last.handler = "verifyUser" /\ last.op = "ActivateAccount"

Verified(token) == ExtractSubjectFromToken(Secret, token, now).err = Nil

Activated == last.op = "ActivateAccount"

\* C7: ActivateAccount with a correctly signed, unexpired token whose subject
\* is not a stored account fails with the not-found error: it does not
\* return the subject id and the handler does not answer 200.
C7_UnknownSubject ==
  ( Activated /\ Verified(last.token) /\ last.before = NoUser /\ ~last.fault )
  => /\ last.err = ErrRecordNotFound
     /\ last.id = NoId
     /\ last.status # 200

Expired(token) ==
  /\ token.form = "jwt" /\ IsHMAC(token.alg) /\ token.key = Secret
  /\ ~(now < token.exp)

\* C8: ActivateAccount with a token whose TTL has elapsed returns
\* ErrInvalidToken and updates nothing in the store.
C8_ExpiredToken ==
  [][ ( last'.op = "ActivateAccount" /\ Expired(last'.token) )
      => /\ last'.err = ErrInvalidToken
         /\ last'.id = NoId
         /\ users' = users ]_vars

C10_SingleErrorKind ==
  ( Activated /\ ~Verified(last.token) ) => last.err = ErrInvalidToken

Extracted == last.op = "ExtractSubjectFromToken"

\* C11: a token NewJwtToken issued for a subject id, a secret and a ttl > 0,
\* verified with the same secret, gives that subject id before issue time +
\* ttl and ErrInvalidToken after issue time + ttl.
C11_RoundTrip ==
  ( /\ Extracted
    /\ last.token.sub # NoId
    /\ last.token = NewJwtToken(last.token.sub, last.secret,
                                last.token.exp - last.token.iat, last.token.iat) )
  => /\ now < last.token.exp => last.id = last.token.sub /\ last.err = Nil
     /\ now > last.token.exp => last.id = NoId /\ last.err = ErrInvalidToken

\* C12: ExtractSubjectFromToken accepts only HS256 tokens: a token with any
\* other algorithm, another HMAC variant keyed with the same secret
\* included, is rejected.
C12_OnlyHS256 ==
  ( Extracted /\ last.token.alg # "HS256" ) => last.err # Nil /\ last.id = NoId

LoggedIn == last.op = "LoginUser" /\ ~last.fault

\* a stored account of a local sign-up: no provider, no provider id
IsLocal(u) == u # NoUser /\ u.provider = "" /\ u.providerID = ""

\* C13: LoginUser for an account created via OAuth (its provider is not
\* empty) returns ErrEmailLinkedToOauth whatever the password, and does not
\* reach the password verification.
C13_OAuthAccountLogin ==
  ( LoggedIn /\ last.before.provider # "" )
  => last.err = ErrEmailLinkedToOauth /\ last.id = NoId /\ ~last.checked

\* C14: LoginUser for a local account that is not active returns
\* ErrAccountNotActive whatever the password, right or wrong: the active
\* flag is looked at before the password.
C14_InactiveLocalLogin ==
  ( LoggedIn /\ IsLocal(last.before) /\ ~last.before.isActive )
  => last.err = ErrAccountNotActive /\ last.id = NoId /\ ~last.checked

C14_Witness ==
  /\ LoggedIn /\ IsLocal(last.before) /\ ~last.before.isActive
  /\ last.password = last.before.password.pw
  /\ last.err = ErrAccountNotActive

\* C15: LoginUser on an active local account returns the account id when
\* the password matches the stored hash and ErrIncorrectPassword when it
\* does not; a login that fails changes no stored account.
C15_ActiveLocalLogin ==
  [][ /\ ( /\ last'.op = "LoginUser" /\ ~last'.fault
           /\ IsLocal(last'.before) /\ last'.before.isActive )
         => IF last'.password = last'.before.password.pw
            THEN last'.err = Nil /\ last'.id = last'.before.id
            ELSE last'.err = ErrIncorrectPassword /\ last'.id = NoId
      /\ ( last'.op = "LoginUser" /\ last'.err # Nil ) => users' = users ]_vars

C15_Witness ==
  /\ LoggedIn /\ IsLocal(last.before) /\ last.before.isActive
  /\ last.password # last.before.password.pw
  /\ last.err = ErrIncorrectPassword
  /\ last.before \in users

\* C16: a LoginUser with the email and password of a RegisterUser that just
\* succeeded on an unused email is refused (the account is not active); a
\* LoginUser with them right after ActivateAccount succeeded with the token
\* mailed for the account succeeds and returns the id the token carries.
C16_RegisterActivateLogin ==
  [][ ( last'.op = "LoginUser" /\ ~last'.fault ) =>
        /\ ( /\ last.op = "RegisterUser" /\ last.err = Nil
             /\ last.faults = {} /\ ~last.dupAtStart
             /\ last'.email = last.email
             /\ last'.password = last.newUser.password.pw )
           => last'.err = ErrAccountNotActive /\ last'.id = NoId
        /\ ( /\ last.op = "ActivateAccount" /\ last.err = Nil
             /\ IsLocal(last.before)
             /\ \E m \in outbox : m.token = last.token /\ m.to = last.before.email
             /\ last'.email = last.before.email
             /\ last'.password = last.before.password.pw )
           => last'.err = Nil /\ last'.id = last.token.sub ]_vars

C16_Witness ==
  /\ LoggedIn /\ IsLocal(last.before)
  /\ last.err = Nil /\ last.id = last.before.id
  /\ \E m \in outbox : m.to = last.email /\ m.token.sub = last.id

\* C17: a stored account with an empty provider id becomes active only in a
\* step where ActivateAccount succeeds with a token signed with the secret,
\* not expired, whose subject is the id of that account: no other operation
\* stores such an account as active or turns it active.
C17_ActiveOnlyByActivation ==
  [][ \A u \in users' :
        ( u.providerID = "" /\ u.isActive /\ ~RowById(users, u.id).isActive )
        => /\ last'.op = "ActivateAccount" /\ last'.err = Nil
           /\ last'.id = u.id
           /\ last'.token.form = "jwt" /\ last'.token.key = Secret
           /\ last'.token.alg \in {"HS256", "HS384", "HS512"}
           /\ now < last'.token.exp
           /\ last'.token.hasSub /\ last'.token.sub = u.id ]_vars

C17_Witness ==
  /\ Activated /\ last.err = Nil
  /\ last.before # NoUser /\ last.before.providerID = "" /\ ~last.before.isActive
  /\ [last.before EXCEPT !.isActive = TRUE] \in users

\* C18: no two stored accounts have the same email, and of the RegisterUser
\* calls that begin on an unused email and meet no fault, concurrent ones
\* with the same email included, each returns nil having stored its account
\* and sent its one e-mail, or ErrKeyDuplicate having sent none while the
\* account of the call that won, with its one e-mail, is in the store.
C18_ConcurrentSameEmail ==
  /\ \A u, v \in users : u.email = v.email => u = v
  /\ ( Registered /\ Began /\ ~last.dupAtStart /\ last.faults = {} )
     => \/ /\ last.err = Nil /\ last.nsent = 1
           /\ \E u \in users : u.id = last.newUser.id /\ u.email = last.email
        \/ /\ last.err = ErrKeyDuplicate /\ last.nsent = 0
           /\ \E u \in users :
                /\ u.email = last.email
                /\ Cardinality({ m \in outbox : m.token.sub = u.id }) = 1
                /\ \A m \in outbox : m.token.sub = u.id => m.to = last.email

C18_Witness ==
  /\ Registered /\ Began /\ ~last.dupAtStart /\ last.faults = {}
  /\ last.err = ErrKeyDuplicate /\ last.nsent = 0
  /\ \E u \in users : u.email = last.email

HandledOAuth == last.op = "HandleOAuthUser" /\ last.err = Nil

\* C19: HandleOAuthUser answers with the id of the one stored account that
\* has the email of the identity, and a second call with the same identity
\* answers with the same id and stores nothing; the result has no field for
\* the password hash.
C19_OAuthIdempotent ==
  [][ ( last'.op = "HandleOAuthUser" /\ last'.err = Nil ) =>
        /\ Cardinality({ u \in users' : u.email = last'.email }) = 1
        /\ last'.id = RowByEmail(users', last'.email).id
        /\ last'.result.id = last'.id
        /\ "password" \notin DOMAIN last'.result
        /\ ( /\ HandledOAuth
             /\ last.email = last'.email
             /\ last.provider = last'.provider
             /\ last.providerID = last'.providerID )
           => last'.id = last.id /\ users' = users ]_vars

C19_Witness ==
  /\ HandledOAuth /\ last.path = "fallback"
  /\ last.before.provider = last.provider
  /\ last.before.providerID = last.providerID
  /\ last.id = last.before.id
  /\ last.before \in users

\* C20: the result of HandleOAuthUser carries the id, email, provider and
\* provider id stored on the account it resolved to, on the path that
\* creates the account and on the path that falls back to the stored one.
C20_ResultMirrorsAccount ==
  HandledOAuth =>
    LET u == RowByEmail(users, last.email) IN
    /\ last.result.id = u.id
    /\ last.result.email = u.email
    /\ last.result.provider = u.provider
    /\ last.result.providerID = u.providerID

HandleCalled == last.op = "HandleOAuthUser"

\* C21: HandleOAuthUser fetches the stored account only when the creation
\* met the duplicate-email conflict; any other creation error is returned
\* as it is, with no fetch, and a failed fetch is returned with no result.
C21_FallbackOnlyOnDuplicate ==
  HandleCalled =>
    /\ last.path = "fallback" <=> ( "create" \notin last.faults /\ last.before # NoUser )
    /\ "create" \in last.faults
         => last.err = ErrStore /\ last.path = "create" /\ last.before \in users \cup {NoUser}
    /\ "fetch" \in last.faults => last.err = ErrStore /\ last.path = "fallback"
    /\ last.err # Nil
         => last.result = NoResult /\ last.id = NoId /\ last.cookie = NoToken

C21_Witness ==
  /\ HandleCalled /\ "create" \in last.faults
  /\ last.before # NoUser /\ last.before \in users
  /\ last.err = ErrStore /\ last.path = "create"

\* C22: a HandleOAuthUser that takes the fallback returns the id of the
\* stored account and writes nothing: every stored account, the one found
\* included, is as before, whether it is local, inactive or of another
\* provider.
C22_FallbackWritesNothing ==
  [][ ( last'.op = "HandleOAuthUser" /\ last'.path = "fallback" )
      => /\ users' = users /\ nextId' = nextId
         /\ last'.before \in users'
         /\ last'.err = Nil => last'.id = last'.before.id ]_vars

C22_Witness ==
  /\ HandledOAuth /\ last.path = "fallback"
  /\ last.before.provider # "" /\ last.before.provider # last.provider
  /\ last.before \in users /\ last.id = last.before.id

\* C23: an account HandleOAuthUser creates from an identity with a
\* non-empty provider subject id is stored active, without a password hash,
\* with the provider and the provider id of the identity.
C23_OAuthAccountFields ==
  /\ ( HandledOAuth /\ last.path = "create" /\ last.providerID # "" )
     => \E u \in users :
          /\ u.id = last.id /\ u.email = last.email
          /\ u.isActive /\ u.password = NoHash
          /\ u.provider = last.provider /\ u.providerID = last.providerID
  /\ \A u \in users :
       u.providerID # "" => u.isActive /\ u.password = NoHash /\ u.provider # ""

C23_Witness ==
  /\ HandledOAuth /\ last.path = "create" /\ last.providerID # ""
  /\ last.before = NoUser
  /\ \E u \in users : u.id = last.id /\ u.isActive /\ u.provider = last.provider

\* C24: checkPassword answers ErrIncorrectPassword only for a mismatch, and
\* LoginUser and ResetPassword both return any other error of the password
\* comparison (an empty stored hash) unchanged.
C24_HashErrorsPropagate ==
  ( /\ last.op \in {"LoginUser", "ResetPassword"} /\ ~last.fault
    /\ last.before # NoUser
    /\ last.op = "LoginUser" => last.checked )
  => /\ last.before.password = NoHash => last.err = ErrHashTooShort
     /\ last.err = ErrIncorrectPassword
          => /\ last.before.password # NoHash
             /\ last.before.password.pw # last.password

\* C25: ResetPassword with a current password that does not match the
\* stored hash returns ErrIncorrectPassword, with an email that has no
\* account ErrRecordNotFound, and in both cases the store is not updated.
C25_ResetRefused ==
  [][ ( last'.op = "ResetPassword" /\ ~last'.fault ) =>
        /\ last'.before = NoUser
             => last'.err = ErrRecordNotFound /\ users' = users
        /\ ( /\ last'.before # NoUser
             /\ last'.before.password # NoHash
             /\ last'.before.password.pw # last'.password )
           => /\ last'.err = ErrIncorrectPassword /\ last'.status = 401
              /\ users' = users ]_vars

C25_Witness ==
  /\ last.op = "ResetPassword" /\ ~last.fault
  /\ last.before # NoUser /\ last.before \in users
  /\ last.before.password # NoHash
  /\ last.before.password.pw # last.password
  /\ last.err = ErrIncorrectPassword

C27_StateCheck ==
  [][ ( /\ last'.handler = "OAuthCallback"
        /\ \/ last'.stateCookie = NoCookie
           \/ last'.state = ""
           \/ last'.state # last'.stateCookie )
      => /\ users' = users /\ nextId' = nextId
         /\ last'.op # "HandleOAuthUser" /\ last'.path = "none"
         /\ last'.cookie = NoToken
         /\ last'.status \in {400, 401} ]_vars

C27_Witness ==
  /\ last.handler = "OAuthCallback"
  /\ last.stateCookie = "" /\ last.state = ""
  /\ last.status = 401 /\ last.op = "none" /\ last.cookie = NoToken

\* C28: a session token of the sign-in middleware ("id" claim, no "sub",
\* signed with the secret) presented to ActivateAccount is refused with
\* ErrInvalidToken and no account changes.
C28_SessionTokenRefused ==
  [][ ( last'.op = "ActivateAccount" /\ last'.token \in cookies )
      => /\ last'.err = ErrInvalidToken
         /\ last'.id = NoId
         /\ users' = users ]_vars

\* C29: every failure of LoginUser leaves the sign-in handler with the one
\* error ErrFailedAuthentication, status 401 and no session token, so two
\* failed sign-ins in a row get the same response; only a success gets a
\* token.
C29_UniformSignInFailure ==
  [][ /\ ( last'.op = "LoginUser" /\ last'.err # Nil )
         => /\ last'.authErr = ErrFailedAuthentication
            /\ last'.status = 401
            /\ last'.cookie = NoToken
      /\ ( /\ last.op = "LoginUser" /\ last.err # Nil
           /\ last'.op = "LoginUser" /\ last'.err # Nil )
         => /\ last'.authErr = last.authErr
            /\ last'.status = last.status
            /\ last'.cookie = last.cookie
      /\ ( last'.op = "LoginUser" /\ last'.cookie # NoToken )
         => last'.err = Nil /\ last'.cookie.idClaim = last'.id ]_vars

C29_Witness ==
  /\ last.op = "LoginUser" /\ last.err = ErrEmailLinkedToOauth
  /\ last.authErr = ErrFailedAuthentication /\ last.status = 401
  /\ last.cookie = NoToken

\* C30: no stored account has a password hash and a provider id: the
\* accounts of RegisterUser keep an empty provider id, those HandleOAuthUser
\* creates with a provider id keep an empty hash, and ResetPassword never
\* succeeds against an empty hash.
C30_HashOrProviderId ==
  /\ \A u \in users : ~( u.password # NoHash /\ u.providerID # "" )
  /\ \A c \in Calls : \A w \in tx[c].writes : w.providerID = ""
  /\ ( last.op = "ResetPassword" /\ last.before # NoUser
       /\ last.before.password = NoHash )
     => last.err # Nil /\ last.before \in users

C30_Witness ==
  /\ last.op = "ResetPassword" /\ ~last.fault
  /\ last.before.providerID # "" /\ last.before.password = NoHash
  /\ last.err # Nil /\ last.before \in users

====
